---- MODULE Spec2Model ----
(***************************************************************************)
(* The Hoare-logic information-flow visitor of staticinflowanalysis        *)
(* (src/staticinflowanalysis/hoare.py) as a state machine.                 *)
(*                                                                         *)
(* The engine's fields (all_vars, indeps, context, high, low, locals,      *)
(* errors) are the state.  The recursion of ast.NodeVisitor is an explicit *)
(* stack of frames, one per active visit_If / visit_While / visit_For /    *)
(* visit_FunctionDef call, holding that call's local variables and the     *)
(* statements of its body still to be visited.  The syntax tree is the     *)
(* input: module-level statements are drawn from a bounded family.         *)
(*                                                                         *)
(* A statement is a record; an expression is represented by what the       *)
(* engine reads of it, the set collect_free_variables returns.  A          *)
(* diagnostic is (code, low, high, func); its line and column are those of *)
(* the def statement and are not modelled.                                 *)
(***************************************************************************)
EXTENDS Naturals, Sequences, FiniteSets

VARIABLES
    all_vars,   \* Hoare.all_vars
    indeps,     \* Hoare.indeps
    context,    \* Hoare.context
    high,       \* Hoare.high
    low,        \* Hoare.low
    locals,     \* Hoare.locals
    errors,     \* Hoare.errors
    stack,      \* the active visit_* calls, innermost last
    cur,        \* the node handed to self.visit(), not yet handled
    op,         \* the handler step taken last
    status      \* "running", or "error" once an exception has left the visitor

vars == <<all_vars, indeps, context, high, low, locals, errors, stack, cur, op,
          status>>

(***************************************************************************)
(* Bounds of the model.                                                    *)
(***************************************************************************)
MaxErrors == 1  \* a generated module ends once it has this many diagnostics
MaxBody == 2    \* statements of a generated body
MaxNodes == 3   \* statement nodes of a generated module-level statement
MaxFree == 1    \* free variables of a generated expression

(***************************************************************************)
(* typedefs.py and collector.py                                            *)
(***************************************************************************)
High == "High"
Low == "Low"
NA == "None"
Confidentiality == {High, Low, NA}

\* extract_flow_config on a line without a "# flow:" comment returns []
NoFlow == <<>>

NoStmt == [kind |-> "None"]
Unbound == "unbound"

(***************************************************************************)
(* hoare.py: the set operations                                            *)
(***************************************************************************)
intersect(sets) ==
    IF sets = {} THEN {}
    ELSE LET first == CHOOSE s \in sets : TRUE
         IN  {e \in first : \A s \in sets : e \in s}

union(sets) ==
    IF sets = {} THEN {} ELSE UNION sets

join(s1, s2) == [x \in DOMAIN s1 |-> s1[x] \cap s2[x]]

InitIndeps(varset) == [var \in varset |-> {x \in varset : x # var}]

calc_indeps(ind, free_vars_in_expr) ==
    IF free_vars_in_expr = {} THEN all_vars
    ELSE intersect({ind[x] : x \in free_vars_in_expr})

\* the union of the independencies, not of their complements
calc_deps_NoComplement(ind, free_vars_in_expr) ==
    union({ind[var] : var \in free_vars_in_expr})

calc_deps(ind, free_vars_in_expr) ==
    union({all_vars \ ind[var] : var \in free_vars_in_expr})

\* add_var: the partition after add_var(var, confidentiality)
add_var(part, var, confidentiality) ==
    IF confidentiality = High THEN [part EXCEPT !.high = @ \cup {var}]
    ELSE IF confidentiality = Low THEN [part EXCEPT !.low = @ \cup {var}]
    ELSE part

(***************************************************************************)
(* The syntax tree handed to the visitor (ast, supplied by the front end). *)
(* value, test and iter hold collect_free_variables of the expression;     *)
(* flow holds extract_flow_config of the statement's source line.          *)
(***************************************************************************)
Assign(t, v, f) == [kind |-> "Assign", target |-> t, value |-> v, flow |-> f]

AugAssign(t, v) == [kind |-> "AugAssign", target |-> t, value |-> v]

Return(v) == [kind |-> "Return", value |-> v]

If(t, b, e) == [kind |-> "If", test |-> t, body |-> b, orelse |-> e]

While(t, b) == [kind |-> "While", test |-> t, body |-> b]

For(i, b) == [kind |-> "For", iter |-> i, body |-> b]

FunctionDef(n, a, f, b) ==
    [kind |-> "FunctionDef", name |-> n, args |-> a, flow |-> f, body |-> b]

HasBody(s) == s.kind \in {"If", "While", "For", "FunctionDef"}

RECURSIVE Size(_)
Size(s) ==
    IF HasBody(s)
    THEN LET RECURSIVE Sum(_)
             Sum(b) == IF b = <<>> THEN 0 ELSE Size(Head(b)) + Sum(Tail(b))
         IN  1 + Sum(s.body)
    ELSE 1

(***************************************************************************)
(* src/test_code.py, the file the plugin is tried on.  The parameter       *)
(* a_long_variable_name of foo is written a.                               *)
(***************************************************************************)
foo ==
    FunctionDef("foo", <<"a", "z", "y">>, <<Low, High, High>>,
        << If({"a"}, << Assign("z", {"y"}, NoFlow), Assign("y", {}, NoFlow) >>, <<>>),
           Return({"z"}) >>)

baz ==
    FunctionDef("baz", <<"x">>, NoFlow,
        << FunctionDef("foobar", <<"z", "y">>, <<High, Low>>,
               << Assign("x", {"z", "y"}, NoFlow), Return({"x"}) >>),
           Return({"x"}) >>)

bar ==
    FunctionDef("bar", <<"x", "y">>, <<Low, High>>,
        << Assign("c", {}, <<High>>),
           If({"x", "c"}, << Assign("y", {}, NoFlow), Assign("c", {"x"}, NoFlow) >>, <<>>),
           Return({"y"}) >>)

\* the module test_code.py
TestCode == [kind |-> "Module", body |-> <<foo, baz, bar>>]

\* collect_all_variables of test_code.py
TestVars == {"a", "c", "x", "y", "z"}

(***************************************************************************)
(* The generated statements, over the names p and q.  A statement outside  *)
(* a def carries no flow comment.                                          *)
(***************************************************************************)
ArgOrder == <<"p", "q">>

VarSets == {{"p"}, {"p", "q"}}

FreeSets(V) == {S \in SUBSET V : Cardinality(S) <= MaxFree}

Simple(V, inDef) ==
    {Assign(t, v, NoFlow) : t \in V, v \in FreeSets(V)}
    \cup {AugAssign(t, v) : t \in V, v \in FreeSets(V)}
    \cup {Return({})}
    \cup IF inDef THEN {Assign(t, {}, <<c>>) : t \in V, c \in {High, Low}} ELSE {}

\* the parameters of a generated def: the names of V, in ArgOrder
ArgList(V) == SelectSeq(ArgOrder, LAMBDA n : n \in V)

\* the labels of a generated def line: none, or High or Low per parameter
FlowLists(V) == {NoFlow} \cup [1..Cardinality(V) -> {High, Low}]

\* an else branch: none, or one assignment of a constant
OrElse(V) == {<<>>, <<Assign(ArgList(V)[1], {}, NoFlow)>>}

RECURSIVE StmtsN(_, _, _)
RECURSIVE SeqsN(_, _, _, _)
\* the statement lists of at most len statements and n nodes
SeqsN(V, n, len, inDef) ==
    IF len = 0 \/ n = 0 THEN {<<>>}
    ELSE {<<>>} \cup
         UNION {{<<s>> \o r : r \in SeqsN(V, n - Size(s), len - 1, inDef)} :
                    s \in StmtsN(V, n, inDef)}

\* the statements of at most n nodes
StmtsN(V, n, inDef) ==
    IF n = 0 THEN {}
    ELSE Simple(V, inDef) \cup
         IF n = 1 THEN {}
         ELSE LET bodies == SeqsN(V, n - 1, MaxBody, inDef) \ {<<>>}
                  inner == SeqsN(V, n - 1, MaxBody, TRUE) \ {<<>>}
              IN  {If(t, b, e) : t \in FreeSets(V), b \in bodies, e \in OrElse(V)}
                  \cup {While(t, b) : t \in FreeSets(V), b \in bodies}
                  \cup {For(t, b) : t \in FreeSets(V), b \in bodies}
                  \cup {FunctionDef(IF inDef THEN "g" ELSE "f", ArgList(V), f, b) :
                            f \in FlowLists(V), b \in inner}

\* the statements a generated module over V is made of
Program == [V \in VarSets |-> StmtsN(V, MaxNodes, FALSE)]

(***************************************************************************)
(* The visitor.  A frame of the stack is an active visit_* call: node is   *)
(* its argument, todo the statements of node.body still to be visited in   *)
(* the current pass, pre the engine state when the call began, and the     *)
(* remaining fields are the call's local variables.                        *)
(***************************************************************************)
Top == stack[Len(stack)]

Pop == SubSeq(stack, 1, Len(stack) - 1)

SetTop(f) == [stack EXCEPT ![Len(stack)] = f]

Push(f) == Append(stack, f)

Snapshot ==
    [indeps |-> indeps, context |-> context, high |-> high, low |-> low,
     locals |-> locals, nerr |-> Len(errors)]

\* Between two statements of the body being visited
AtRest == status = "running" /\ cur = NoStmt

BodyDone(kind) ==
    AtRest /\ stack # <<>> /\ Top.kind = kind /\ Top.todo = <<>>

\* Hoare(lines, varset) and hoare.visit(tree): of a generated module, whose
\* statements are drawn as they are visited, or of test_code.py
Init ==
    /\ \/ /\ all_vars \in VarSets
          /\ stack = <<>>
       \/ /\ all_vars = TestVars
          /\ stack = <<[kind |-> "Module", node |-> TestCode, todo |-> TestCode.body]>>
    /\ indeps = InitIndeps(all_vars)
    /\ context = {}
    /\ high = {}
    /\ low = {}
    /\ locals = {}
    /\ errors = <<>>
    /\ cur = NoStmt
    /\ op = "init"
    /\ status = "running"

\* self.visit(n) for the next statement n: of the generated module, or of
\* the body being visited
visit ==
    /\ AtRest
    /\ \/ /\ stack = <<>>
          /\ Len(errors) < MaxErrors
          /\ \E s \in Program[all_vars] : cur' = s
          /\ stack' = stack
       \/ /\ stack # <<>>
          /\ Top.todo # <<>>
          /\ cur' = Head(Top.todo)
          /\ stack' = SetTop([Top EXCEPT !.todo = Tail(@)])
    /\ op' = "visit"
    /\ UNCHANGED <<all_vars, indeps, context, high, low, locals, errors, status>>

\* an assignment that does not subtract the context
AssignIndepsNoContext(ind, ctx, target, value) ==
    [ind EXCEPT ![target] = calc_indeps(ind, value)]

\* indeps[target] after an analysed assignment of an expression with the
\* free variables value, under the context ctx
AssignIndeps(ind, ctx, target, value) ==
    [ind EXCEPT ![target] = calc_indeps(ind, value) \ ctx]

visit_Assign ==
    /\ status = "running"
    /\ cur.kind = "Assign"
    /\ IF cur.flow # <<>>
       THEN LET part == add_var([high |-> high, low |-> low], cur.target, cur.flow[1])
            IN  /\ high' = part.high
                /\ low' = part.low
                /\ locals' = locals \cup {cur.target}
                /\ indeps' = indeps
       ELSE /\ indeps' = AssignIndeps(indeps, context, cur.target, cur.value)
            /\ UNCHANGED <<high, low, locals>>
    /\ cur' = NoStmt
    /\ op' = IF cur.flow # <<>> THEN "visit_Assign.return" ELSE "visit_Assign"
    /\ UNCHANGED <<all_vars, context, errors, stack, status>>

\* the context visit_AugAssign leaves behind
AugAssignContext(old_ctx, target) == old_ctx

visit_AugAssign ==
    /\ status = "running"
    /\ cur.kind = "AugAssign"
    /\ LET old_ctx == context
           ctx == context \cup {cur.target}
       IN  /\ indeps' = AssignIndeps(indeps, ctx, cur.target, cur.value)
           /\ context' = AugAssignContext(old_ctx, cur.target)
    /\ cur' = NoStmt
    /\ op' = "visit_AugAssign"
    /\ UNCHANGED <<all_vars, high, low, locals, errors, stack, status>>

\* a statement Hoare has no visit_ method for: ast.NodeVisitor.generic_visit
generic_visit ==
    /\ status = "running"
    /\ cur.kind = "Return"
    /\ cur' = NoStmt
    /\ op' = "generic_visit"
    /\ UNCHANGED <<all_vars, indeps, context, high, low, locals, errors, stack,
                   status>>

(***************************************************************************)
(* visit_If                                                                *)
(***************************************************************************)
\* the statements visit_If visits in its second pass
SecondPass(node) == node.body

\* a visit_If that leaves the branch context behind
IfExitContextIntermediate(f) == f.intermediate_ctx

\* the context visit_If leaves behind
IfExitContext(f) == f.old_ctx

IfEnter ==
    /\ status = "running"
    /\ cur.kind = "If"
    /\ LET old_ctx == context
           deps == calc_deps(indeps, cur.test)
           intermediate_ctx == context \cup deps
       IN  /\ context' = intermediate_ctx
           /\ stack' = Push([kind |-> "If", node |-> cur, todo |-> cur.body,
                             pre |-> Snapshot, old_ctx |-> old_ctx,
                             intermediate_ctx |-> intermediate_ctx,
                             if_indeps |-> Unbound, pass |-> 1])
    /\ cur' = NoStmt
    /\ op' = "IfEnter"
    /\ UNCHANGED <<all_vars, indeps, high, low, locals, errors, status>>

IfElse ==
    /\ BodyDone("If")
    /\ Top.pass = 1
    /\ "orelse" \in DOMAIN Top.node
    /\ context' = Top.intermediate_ctx
    /\ stack' = SetTop([Top EXCEPT !.if_indeps = indeps, !.pass = 2,
                                   !.todo = SecondPass(Top.node)])
    /\ op' = "IfElse"
    /\ UNCHANGED <<all_vars, indeps, high, low, locals, errors, cur, status>>

IfExit ==
    /\ BodyDone("If")
    /\ Top.pass = 2
    /\ LET else_indeps == indeps
       IN  indeps' = join(Top.if_indeps, else_indeps)
    /\ context' = IfExitContext(Top)
    /\ stack' = Pop
    /\ op' = "IfExit"
    /\ UNCHANGED <<all_vars, high, low, locals, errors, cur, status>>

(***************************************************************************)
(* visit_While and visit_For: the same fixpoint iteration, over node.test  *)
(* and node.iter.  iters counts the executions of the loop body, iter_ctx  *)
(* is the context the current one began with.                              *)
(***************************************************************************)
Guard(node) == IF node.kind = "While" THEN node.test ELSE node.iter

\* the context a loop leaves behind
LoopExitContext(f) == f.old_ctx

\* a loop that keeps the snapshot taken at loop entry
NextPrevIndepsStale(f, joined) == f.prev_indeps

\* prev_indeps of the next execution of the body: a copy of the joined map
NextPrevIndeps(f, joined) == joined

LoopEnter(kind) ==
    /\ status = "running"
    /\ cur.kind = kind
    /\ LET free_vars == Guard(cur)
           old_ctx == context
           deps == calc_deps(indeps, free_vars)
           prev_indeps == indeps
       IN  /\ context' = context \cup deps
           /\ stack' = Push([kind |-> kind, node |-> cur, todo |-> cur.body,
                             pre |-> Snapshot, old_ctx |-> old_ctx,
                             prev_indeps |-> prev_indeps, iters |-> 1,
                             iter_ctx |-> context \cup deps])
    /\ cur' = NoStmt
    /\ op' = kind \o "Enter"
    /\ UNCHANGED <<all_vars, indeps, high, low, locals, errors, status>>

\* the body was visited and the join differs from prev_indeps: once more
LoopRepeat(kind) ==
    /\ BodyDone(kind)
    /\ LET joined == join(indeps, Top.prev_indeps)
           deps == calc_deps(joined, Guard(Top.node))
       IN  /\ joined # Top.prev_indeps
           /\ indeps' = joined
           /\ context' = context \cup deps
           /\ stack' = SetTop([Top EXCEPT !.prev_indeps = NextPrevIndeps(Top, joined),
                                          !.iters = @ + 1,
                                          !.todo = Top.node.body,
                                          !.iter_ctx = context \cup deps])
    /\ op' = kind \o "Repeat"
    /\ UNCHANGED <<all_vars, high, low, locals, errors, cur, status>>

\* the body was visited and the join equals prev_indeps: break
LoopExit(kind) ==
    /\ BodyDone(kind)
    /\ LET joined == join(indeps, Top.prev_indeps)
       IN  /\ joined = Top.prev_indeps
           /\ indeps' = joined
    /\ context' = LoopExitContext(Top)
    /\ stack' = Pop
    /\ op' = kind \o "Exit"
    /\ UNCHANGED <<all_vars, high, low, locals, errors, cur, status>>

WhileEnter == LoopEnter("While")

WhileRepeat == LoopRepeat("While")

WhileExit == LoopExit("While")

ForEnter == LoopEnter("For")

ForRepeat == LoopRepeat("For")

ForExit == LoopExit("For")

(***************************************************************************)
(* visit_FunctionDef                                                       *)
(***************************************************************************)
\* for x, y in zip(var_names, flow_conf): self.add_var(x, y)
RECURSIVE AddVars(_, _, _)
AddVars(part, var_names, flow_conf) ==
    IF var_names = <<>> \/ flow_conf = <<>> THEN part
    ELSE AddVars(add_var(part, Head(var_names), Head(flow_conf)),
                 Tail(var_names), Tail(flow_conf))

\* the orders a for loop may iterate a set in
Orders(S) ==
    {f \in [1..Cardinality(S) -> S] : \A i, j \in DOMAIN f : f[i] = f[j] => i = j}

\* the pairs of the nested loops over self.high and self.low, in order
PairSeq(hs, ls) ==
    [k \in 1..(Len(hs) * Len(ls)) |->
        [high |-> hs[((k - 1) \div Len(ls)) + 1], low |-> ls[((k - 1) % Len(ls)) + 1]]]

\* error_type after the two if statements of the loop body, from its value
\* before them (Unbound in the first iteration)
ErrorType(ind, locs, high_var, low_var, before) ==
    LET et1 == IF low_var \notin ind[high_var]
               THEN IF low_var \in locs THEN "STA201"
                    ELSE IF high_var \in locs THEN "STA301"
                    ELSE "STA101"
               ELSE before
    IN  IF high_var \notin ind[low_var]
        THEN IF high_var \in locs THEN "STA200"
             ELSE IF low_var \in locs THEN "STA300"
             ELSE "STA100"
        ELSE et1

\* the loop over the pairs: the diagnostics added, and whether reading an
\* unbound error_type raised UnboundLocalError
RECURSIVE CheckPairs(_, _, _, _, _, _)
CheckPairs(pairs, ind, locs, func, error_type, errs) ==
    IF pairs = <<>> THEN [errors |-> errs, raised |-> FALSE]
    ELSE LET p == Head(pairs)
             et == ErrorType(ind, locs, p.high, p.low, error_type)
         IN  IF et = Unbound THEN [errors |-> errs, raised |-> TRUE]
             ELSE CheckPairs(Tail(pairs), ind, locs, func, et,
                      Append(errs, [code |-> et, low |-> p.low, high |-> p.high,
                                    func |-> func]))

\* a visit_FunctionDef that leaves the partition of the def it visited
RestoredPartitionKept(f) == [high |-> high, low |-> low, locals |-> locals]

\* the partition visit_FunctionDef leaves behind
RestoredPartition(f) ==
    [high |-> f.old_high, low |-> f.old_low, locals |-> f.old_locals]

FunctionDefEnter ==
    /\ status = "running"
    /\ cur.kind = "FunctionDef"
    /\ LET flow_conf == cur.flow
           var_names == cur.args
           part == AddVars([high |-> {}, low |-> {}], var_names, flow_conf)
       IN  /\ high' = part.high
           /\ low' = part.low
           /\ locals' = {}
           /\ stack' = Push([kind |-> "FunctionDef", node |-> cur,
                             todo |-> cur.body, pre |-> Snapshot,
                             old_high |-> high, old_low |-> low,
                             old_locals |-> locals])
    /\ cur' = NoStmt
    /\ op' = "FunctionDefEnter"
    /\ UNCHANGED <<all_vars, indeps, context, errors, status>>

FunctionDefExit ==
    /\ BodyDone("FunctionDef")
    /\ \E hs \in Orders(high), ls \in Orders(low) :
          LET res == CheckPairs(PairSeq(hs, ls), indeps, locals, Top.node.name,
                                Unbound, errors)
              part == RestoredPartition(Top)
          IN  /\ errors' = res.errors
              /\ IF res.raised
                 THEN /\ status' = "error"
                      /\ UNCHANGED <<high, low, locals, stack>>
                 ELSE /\ status' = status
                      /\ high' = part.high
                      /\ low' = part.low
                      /\ locals' = part.locals
                      /\ stack' = Pop
    /\ op' = "FunctionDefExit"
    /\ UNCHANGED <<all_vars, indeps, context, cur>>

Next ==
    \/ visit
    \/ visit_Assign
    \/ visit_AugAssign
    \/ generic_visit
    \/ IfEnter
    \/ IfElse
    \/ IfExit
    \/ WhileEnter
    \/ WhileRepeat
    \/ WhileExit
    \/ ForEnter
    \/ ForRepeat
    \/ ForExit
    \/ FunctionDefEnter
    \/ FunctionDefExit

Spec == Init /\ [][Next]_vars

(***************************************************************************)
(* Properties.  A step is recognised by op', the handler step it takes;    *)
(* in a step that leaves a visit_* call, Top is the frame of that call.    *)
(***************************************************************************)
LoopKinds == {"While", "For"}

LoopExits == {"WhileExit", "ForExit"}

LoopRepeats == {"WhileRepeat", "ForRepeat"}

\* the diagnostics the step appends
Added == SubSeq(errors', Len(errors) + 1, Len(errors'))

Diag(code, l, h, func) == [code |-> code, low |-> l, high |-> h, func |-> func]

LowToHighCode(h, l) ==
    IF l \in locals THEN "STA201" ELSE IF h \in locals THEN "STA301" ELSE "STA101"

HighToLowCode(h, l) ==
    IF h \in locals THEN "STA200" ELSE IF l \in locals THEN "STA300" ELSE "STA100"

LowToHigh(h, l) == l \notin indeps[h]

HighToLow(h, l) == h \notin indeps[l]

\* C1: when a function definition is visited, every diagnostic appended is
\* for a pair (h, l) with l not in indeps[h] or h not in indeps[l], and the
\* visit completes normally.
C1_DiagnosticOnlyOnFlow ==
    [][op' = "FunctionDefExit" =>
          /\ status' = "running"
          /\ \A i \in DOMAIN Added :
                LowToHigh(Added[i].high, Added[i].low)
                \/ HighToLow(Added[i].high, Added[i].low)]_vars

\* C2: a completed visit of a function definition appends, for every pair
\* (h, l) with both l not in indeps[h] and h not in indeps[l], a low-to-high
\* diagnostic and a high-to-low diagnostic.
C2_BothDirections ==
    [][(op' = "FunctionDefExit" /\ status' = "running") =>
          \A h \in high, l \in low :
              (LowToHigh(h, l) /\ HighToLow(h, l)) =>
                  /\ \E i \in DOMAIN Added :
                        Added[i] = Diag(LowToHighCode(h, l), l, h, Top.node.name)
                  /\ \E i \in DOMAIN Added :
                        Added[i] = Diag(HighToLowCode(h, l), l, h, Top.node.name)]_vars

\* C3: every diagnostic appended carries the code of a direction in which
\* its pair flows, chosen by Locals membership; and bar of test_code.py
\* yields a diagnostic with the code STA300 or STA301.
C3_CodeByDirectionAndLocals ==
    [][op' = "FunctionDefExit" =>
          /\ \A i \in DOMAIN Added :
                LET h == Added[i].high
                    l == Added[i].low
                IN  \/ LowToHigh(h, l) /\ Added[i].code = LowToHighCode(h, l)
                    \/ HighToLow(h, l) /\ Added[i].code = HighToLowCode(h, l)
          /\ Top.node = bar =>
                \E i \in DOMAIN Added : Added[i].code \in {"STA300", "STA301"}]_vars

\* foo is visited by an engine nothing else has been visited by
FooExit ==
    /\ op' = "FunctionDefExit"
    /\ Top.node = foo
    /\ Top.pre.indeps = InitIndeps(all_vars)

\* C4 as stated: analysing foo yields exactly one diagnostic, STA101 for
\* low a and high z.
C4_FooOneFinding ==
    [][FooExit =>
          /\ status' = "running"
          /\ Added = <<Diag("STA101", "a", "z", "foo")>>]_vars

\* C4 as amended: analysing foo with a freshly initialised engine yields
\* exactly two diagnostics, STA101 for low a and high z and STA101 for low a
\* and high y, in either order.
C4_FooTwoFindings ==
    [][FooExit =>
          /\ status' = "running"
          /\ Len(Added) = 2
          /\ {Added[i] : i \in DOMAIN Added} =
                 {Diag("STA101", "a", "z", "foo"), Diag("STA101", "a", "y", "foo")}]_vars

C4_Witness ==
    /\ op = "FunctionDefExit"
    /\ status = "running"
    /\ Len(errors) = 2
    /\ \A i \in DOMAIN errors : errors[i].func = "foo"

\* C5: a function definition without a flow comment on its def line appends
\* no diagnostic of its own, and its visit completes normally.
C5_NoConfigNoDiagnostic ==
    [][(op' = "FunctionDefExit" /\ Top.node.flow = NoFlow) =>
          /\ status' = "running"
          /\ errors' = errors]_vars

\* C6 as stated: a loop body is executed at most |V| times, and on exit the
\* independency map equals the snapshot taken before the last execution.
C6_AtMostVIterations ==
    [][/\ op' \in LoopRepeats => Top.iters + 1 <= Cardinality(all_vars)
       /\ op' \in LoopExits => indeps' = Top.prev_indeps]_vars

\* C6 as amended: a loop body is executed at most |V| + 1 times, and on exit
\* the independency map equals the snapshot taken before the last execution.
C6_AtMostVPlusOneIterations ==
    [][/\ op' \in LoopRepeats => Top.iters + 1 <= Cardinality(all_vars) + 1
       /\ op' \in LoopExits => indeps' = Top.prev_indeps]_vars

\* a loop whose body is being executed for the (|V| + 1)-th time
C6_Witness ==
    \E i \in DOMAIN stack :
        /\ stack[i].kind \in LoopKinds
        /\ stack[i].iters = Cardinality(all_vars) + 1

\* the map after visiting a list of unannotated assignments
RECURSIVE StraightLine(_, _, _)
StraightLine(stmts, ind, ctx) ==
    IF stmts = <<>> THEN ind
    ELSE StraightLine(Tail(stmts),
                      AssignIndeps(ind, ctx, Head(stmts).target, Head(stmts).value),
                      ctx)

\* C7: after an if statement the independency map is join(thenMap, elseMap),
\* elseMap being the map after the else body visited under the branch-entry
\* context, and the pre-if map when there is no else; without an else every
\* indeps[v] is a subset of what it was before the if.
C7_IfJoinsThenAndElse ==
    [][op' = "IfExit" =>
          LET thenMap == Top.if_indeps
              elseMap == StraightLine(Top.node.orelse, Top.pre.indeps,
                                      Top.intermediate_ctx)
          IN  /\ indeps' = join(thenMap, elseMap)
              /\ Top.node.orelse = <<>> =>
                    \A v \in all_vars : indeps'[v] \subseteq Top.pre.indeps[v]]_vars

\* indeps after target = expr as the claim gives it
Assigned(target, value) ==
    [v \in all_vars |->
        IF v = target
        THEN (IF value = {} THEN all_vars
              ELSE {x \in all_vars : \A f \in value : x \in indeps[f]}) \ context
        ELSE indeps[v]]

\* C8 as stated: after any assignment target = expr, annotated or not,
\* indeps[target] is calc_independencies(free(expr)) minus Context and no
\* other entry has changed.
C8_EveryAssignRecomputes ==
    [][op' \in {"visit_Assign", "visit_Assign.return"} =>
          indeps' = Assigned(cur.target, cur.value)]_vars

\* C8 as amended: after an assignment whose line carries no flow comment,
\* indeps[target] is calc_independencies(free(expr)) minus Context and no
\* other entry has changed; an assignment whose line carries a flow comment
\* changes no entry.
C8_UnannotatedAssignRecomputes ==
    [][/\ op' = "visit_Assign" =>
             cur.flow = NoFlow /\ indeps' = Assigned(cur.target, cur.value)
       /\ op' = "visit_Assign.return" =>
             cur.flow # NoFlow /\ indeps' = indeps]_vars

\* an analysed assignment under a non-empty context, inside a function
C8_Witness ==
    /\ op = "visit_Assign"
    /\ context # {}
    /\ \E v \in all_vars : indeps[v] # InitIndeps(all_vars)[v]
    /\ \E i \in DOMAIN stack : stack[i].kind = "FunctionDef"

\* C9: the context after an if statement, a loop or an augmented assignment
\* is the context before it, and the context an execution of a loop body
\* begins with contains the one the previous execution began with.
C9_ContextRestored ==
    [][/\ op' \in {"IfExit"} \cup LoopExits => context' = Top.pre.context
       /\ op' = "visit_AugAssign" => context' = context
       /\ op' \in LoopRepeats => Top.iter_ctx \subseteq context']_vars

\* an if statement has been left inside a loop body executed again, and the
\* context is back to the non-empty one that execution began with
C9_Witness ==
    /\ op = "IfExit"
    /\ stack # <<>>
    /\ Top.kind \in LoopKinds
    /\ Top.iters >= 2
    /\ context # {}
    /\ context = Top.iter_ctx

\* the names a def labels c itself: by its def line and by the flow comments
\* of the assignments of its body, nested defs apart
RECURSIVE InlineLabelled(_, _)
InlineLabelled(body, labels) ==
    IF body = <<>> THEN {}
    ELSE LET s == Head(body)
             own == IF s.kind = "Assign"
                    THEN (IF s.flow # NoFlow /\ s.flow[1] \in labels
                          THEN {s.target} ELSE {})
                    ELSE IF s.kind \in {"If", "While", "For"}
                    THEN InlineLabelled(s.body, labels)
                    ELSE {}
         IN  own \cup InlineLabelled(Tail(body), labels)

ParamLabelled(node, c) ==
    {node.args[i] : i \in {j \in DOMAIN node.args \cap DOMAIN node.flow :
                              node.flow[j] = c}}

\* C10: a completed visit of a function definition leaves High, Low and
\* Locals as they were before it, and the pairs it tests are built from its
\* own parameters' labels and its own annotated assignments only.
C10_PartitionRestored ==
    [][(op' = "FunctionDefExit" /\ status' = "running") =>
          /\ high' = Top.pre.high
          /\ low' = Top.pre.low
          /\ locals' = Top.pre.locals
          /\ high = ParamLabelled(Top.node, High)
                       \cup InlineLabelled(Top.node.body, {High})
          /\ low = ParamLabelled(Top.node, Low)
                       \cup InlineLabelled(Top.node.body, {Low})
          /\ locals = InlineLabelled(Top.node.body, Confidentiality)]_vars

\* a nested def has been left with a diagnostic, back in an enclosing def
\* whose own partition is not empty
C10_Witness ==
    /\ op = "FunctionDefExit"
    /\ status = "running"
    /\ stack # <<>>
    /\ Top.kind = "FunctionDef"
    /\ high # {}
    /\ low # {}
    /\ errors # <<>>

====
